---- MODULE Spec2Model ----
(***************************************************************************)
(* Limit order book (limit_order_book.py) with its order owners            *)
(* (client.py).  Orders are objects identified by their position in        *)
(* `orders`; a book's bids and asks are SortedDicts from a key (the price  *)
(* for asks, the negated price for bids) to a deque of orders.             *)
(* add_order and remove_order are sequential: `pc` is the position inside  *)
(* the running call and no other call starts until it is back to "idle".   *)
(* Sizes and prices are Decimals in the source; they are modelled as       *)
(* integers (a number of ticks / lots), on which Decimal arithmetic is     *)
(* exact.                                                                  *)
(***************************************************************************)
EXTENDS Integers, Sequences, FiniteSets, TLC

VARIABLES
    nb_books,       \* LimitOrderBook.nb_books, the class-wide counter
    books,          \* the LimitOrderBook instances, in construction order
    orders,         \* the Order instances, in construction order
    active_orders,  \* Client.active_orders, per client
    log,            \* the OrderUpdates delivered to receive_update since the last call started, in order
    notified,       \* per order, the (status, last_status) of every OrderUpdate delivered for it, in order
    pc,             \* position inside the running add_order / remove_order
    cur_book,       \* the book of the running call (0 when idle)
    cur_order,      \* the order of the running call (0 when idle)
    result,         \* how the last call ended
    submitted,      \* history: sum of the sizes of the orders given to add_order
    fills,          \* history: sum, over the match steps, of the quantity taken from each of the two orders
    cancelled,      \* history: sum of the sizes of cancelled orders when they were cancelled
    size0           \* history: per order, the size it was constructed with

vars == <<nb_books, books, orders, active_orders, log, notified, pc, cur_book, cur_order,
          result, submitted, fills, cancelled, size0>>

book_vars == <<nb_books, books>>
hist_vars == <<submitted, fills, cancelled>>

\* ------------------------------------------------------------------ bounds
MaxOrders == 3     \* Order objects constructed in a run of Spec
MaxOrdersV == 2    \* Order objects constructed in a run of SpecVenues
MaxPrice == 2      \* prices are 1..MaxPrice
MaxPriceV == 1     \* prices are 1..MaxPriceV in a run of SpecVenues
MaxSize == 3       \* sizes are 1 and MaxSize
MaxBooks == 2      \* LimitOrderBook instances (main.py builds two)
MaxClients == 2    \* Client instances (main.py builds two)
MaxCount == 10     \* orders a book has already numbered when a run of SpecIds starts
MaxOrdersI == 2    \* Order objects constructed in a run of SpecIds
MaxOrdersC == 2    \* Order objects constructed in a run of SpecClients
MaxBookId == 11    \* LimitOrderBook instances built by the process in a run of SpecBookIds

Prices == 1..MaxPrice
Sizes == {1, MaxSize}
Sides == {"BUY", "SELL"}
Books == 1..MaxBooks
Clients == 1..MaxClients

\* ------------------------------------------------------------------ helpers
Abs(x) == IF x < 0 THEN -x ELSE x

Min(a, b) == IF a <= b THEN a ELSE b

RECURSIVE Pow10Above(_, _)
\* the least power of ten (>= p) that is greater than n
Pow10Above(n, p) == IF n < p THEN p ELSE Pow10Above(n, p * 10)

\* int(f"{a}{b}"): the decimal digits of a followed by those of b
ConcatDigits(a, b) == a * Pow10Above(b, 10) + b

\* SortedDict(): no key
EmptyDict == [k \in {} |-> <<>>]

\* SortedDict.peekitem()[0]: index defaults to -1, the LAST item of the
\* ascending key order, i.e. the greatest key.
PeekItem(d) == CHOOSE k \in DOMAIN d : \A j \in DOMAIN d : j <= k

\* del d[k]
DelKey(d, k) == [j \in (DOMAIN d) \ {k} |-> d[j]]

\* d[k] = v (insert or overwrite)
SetKey(d, k, v) == [j \in (DOMAIN d) \cup {k} |-> IF j = k THEN v ELSE d[j]]

\* the orders held by a SortedDict, over all its levels
InDict(d) == UNION {{d[k][i] : i \in 1..Len(d[k])} : k \in DOMAIN d}

\* x in deque (Order defines no __eq__: two orders are equal when they are
\* the same object)
InDeque(q, x) == \E i \in 1..Len(q) : q[i] = x

\* deque.remove(x) when x is in q: drops the first occurrence of x
\* (when x is not in q the call raises ValueError and q is left as it is)
DequeRemove(q, x) ==
    IF InDeque(q, x)
    THEN LET i == CHOOSE n \in 1..Len(q) : q[n] = x /\ \A j \in 1..(n - 1) : q[j] # x
         IN SubSeq(q, 1, i - 1) \o SubSeq(q, i + 1, Len(q))
    ELSE q

\* ------------------------------------------------------------------ Order
\* Order.__init__: status CREATED, no order_id (0 stands for None)
NewOrder(price, size, side, venue, owner) ==
    [price |-> price, size |-> size, side |-> side, venue |-> venue,
     owner |-> owner, status |-> "CREATED", order_id |-> 0]

\* Client.receive_update dropping the order on PARTIALLY_FILLED as well
ReceiveUpdateOnPartial(active, owner, upd) ==
    IF upd.status \in {"FILLED", "CANCELLED", "PARTIALLY_FILLED"}
    THEN IF upd.order \in active[owner]
         THEN [active |-> [active EXCEPT ![owner] = @ \ {upd.order}], raised |-> FALSE]
         ELSE [active |-> active, raised |-> TRUE]
    ELSE IF upd.status = "POSTED"
         THEN [active |-> [active EXCEPT ![owner] = @ \cup {upd.order}], raised |-> FALSE]
         ELSE [active |-> active, raised |-> FALSE]

\* Client.receive_update on the clients' active sets; raised: set.remove of
\* an order that is not in the set raises KeyError
ReceiveUpdate(active, owner, upd) ==
    IF upd.status \in {"FILLED", "CANCELLED"}
    THEN IF upd.order \in active[owner]
         THEN [active |-> [active EXCEPT ![owner] = @ \ {upd.order}], raised |-> FALSE]
         ELSE [active |-> active, raised |-> TRUE]
    ELSE IF upd.status = "POSTED"
         THEN [active |-> [active EXCEPT ![owner] = @ \cup {upd.order}], raised |-> FALSE]
         ELSE [active |-> active, raised |-> FALSE]

\* update_status reading old_status after the assignment of the new status
UpdateStatusStale(st, o, new_status) ==
    IF st.raised THEN st
    ELSE LET ords == [st.orders EXCEPT ![o].status = new_status]
             owner == st.orders[o].owner
             upd == [order |-> o, status |-> new_status, last_status |-> new_status]
         IN IF owner = 0
            THEN [st EXCEPT !.orders = ords]
            ELSE LET r == ReceiveUpdate(st.active, owner, upd)
                 IN [orders |-> ords, log |-> Append(st.log, upd),
                     notified |-> [st.notified EXCEPT ![o] =
                         Append(@, [status |-> new_status, last_status |-> new_status])],
                     active |-> r.active, raised |-> r.raised]

\* Order.update_status on st = [orders, log, notified, active, raised]; once an
\* exception is raised the statements after it do not run
UpdateStatus(st, o, new_status) ==
    IF st.raised THEN st
    ELSE LET old_status == st.orders[o].status
             ords == [st.orders EXCEPT ![o].status = new_status]
             owner == st.orders[o].owner
             upd == [order |-> o, status |-> new_status, last_status |-> old_status]
         IN IF owner = 0
            THEN [st EXCEPT !.orders = ords]
            ELSE LET r == ReceiveUpdate(st.active, owner, upd)
                 IN [orders |-> ords, log |-> Append(st.log, upd),
                     notified |-> [st.notified EXCEPT ![o] =
                         Append(@, [status |-> new_status, last_status |-> old_status])],
                     active |-> r.active, raised |-> r.raised]

\* ------------------------------------------------------------------ LimitOrderBook
\* LimitOrderBook.__init__ when nb_books = n - 1
NewBook(n) ==
    [book_id |-> n, bids |-> EmptyDict, asks |-> EmptyDict,
     last_order |-> 0, order_count |-> 0]

\* _new_order_id without `self._order_count += 1`
NextCountSame(order_count) == order_count

\* _new_order_id: self._order_count += 1
NextCount(order_count) == order_count + 1

\* _new_order_id counting over a counter shared by all the books
NewOrderIdShared(book_id, order_count) ==
    ConcatDigits(book_id, Cardinality({n \in 1..Len(orders) : orders[n].order_id # 0}) + 1)

\* _new_order_id, for the incremented count
NewOrderId(book_id, order_count) == ConcatDigits(book_id, order_count)

\* _convert_price
ConvertPrice(order) == IF order.side = "SELL" THEN order.price ELSE -order.price

\* the SortedDict add_order / remove_order pick for an order
SideOf(book, order) == IF order.side = "BUY" THEN book.bids ELSE book.asks

\* _is_crossing
IsCrossing(book, order) ==
    IF order.side = "BUY"
    THEN IF DOMAIN book.asks # {}
         THEN order.price >= PeekItem(book.asks)
         ELSE FALSE
    ELSE IF DOMAIN book.bids # {}
         THEN order.price <= -PeekItem(book.bids)
         ELSE FALSE

\* _match: condition = order.price.__ge__ for a BUY, __le__ for a SELL
Condition(order, p) ==
    IF order.side = "BUY" THEN order.price >= p ELSE order.price <= p

\* _match taking the order's own side for opposite_side
OppositeSideSame(book, order) == IF order.side = "BUY" THEN book.bids ELSE book.asks

\* _match: opposite_side
OppositeSide(book, order) == IF order.side = "BUY" THEN book.asks ELSE book.bids

\* the book with its opposite side (for this order) replaced
WithOpposite(book, order, d) ==
    IF order.side = "BUY" THEN [book EXCEPT !.asks = d] ELSE [book EXCEPT !.bids = d]

\* the order's side taken for the other one
WithSideSwapped(book, order, d) ==
    IF order.side = "SELL" THEN [book EXCEPT !.bids = d] ELSE [book EXCEPT !.asks = d]

\* the book with the order's own side replaced
WithSide(book, order, d) ==
    IF order.side = "BUY" THEN [book EXCEPT !.bids = d] ELSE [book EXCEPT !.asks = d]

\* popleft without `del opposite_side[top_price]`
PopLeftKeep(d, top_price) == SetKey(d, top_price, Tail(d[top_price]))

\* top_orders.popleft() and, if the deque is then empty, del opposite_side[top_price]
PopLeft(d, top_price) ==
    IF Len(Tail(d[top_price])) = 0
    THEN DelKey(d, top_price)
    ELSE SetKey(d, top_price, Tail(d[top_price]))

\* _match without `order.size -= matching_order.size` in the diff < 0 branch
MatchSizesKeep(ords, o, m) ==
    LET diff == ords[m].size - ords[o].size
    IN IF diff < 0
       THEN [ords EXCEPT ![m].size = 0]
       ELSE IF diff > 0
            THEN [ords EXCEPT ![m].size = ords[m].size - ords[o].size, ![o].size = 0]
            ELSE [ords EXCEPT ![m].size = 0, ![o].size = 0]

\* _match, one iteration: the sizes of the incoming order o and of the
\* matching order m after the branch taken on diff
MatchSizes(ords, o, m) ==
    LET diff == ords[m].size - ords[o].size
    IN IF diff < 0
       THEN [ords EXCEPT ![o].size = ords[o].size - ords[m].size, ![m].size = 0]
       ELSE IF diff > 0
            THEN [ords EXCEPT ![m].size = ords[m].size - ords[o].size, ![o].size = 0]
            ELSE [ords EXCEPT ![m].size = 0, ![o].size = 0]

\* _match without top_orders.popleft()
MatchLevelsNoPop(d, top_price, diff) == d

\* _match popping the head of the level in the diff > 0 branch too
MatchLevelsPopAlways(d, top_price, diff) == PopLeft(d, top_price)

\* _match, one iteration: the opposite side after the branch taken on diff
MatchLevels(d, top_price, diff) ==
    IF diff > 0 THEN d ELSE PopLeft(d, top_price)

\* _match whose diff == 0 branch reports the incoming order PARTIALLY_FILLED
MatchUpdatesPartial(st, o, m, diff) ==
    IF diff < 0
    THEN UpdateStatus(UpdateStatus(st, o, "PARTIALLY_FILLED"), m, "FILLED")
    ELSE IF diff > 0
         THEN UpdateStatus(UpdateStatus(st, m, "PARTIALLY_FILLED"), o, "FILLED")
         ELSE UpdateStatus(UpdateStatus(st, m, "FILLED"), o, "PARTIALLY_FILLED")

\* _match with the two update_status calls of the diff > 0 branch swapped
MatchUpdatesSwapped(st, o, m, diff) ==
    IF diff < 0
    THEN UpdateStatus(UpdateStatus(st, o, "PARTIALLY_FILLED"), m, "FILLED")
    ELSE IF diff > 0
         THEN UpdateStatus(UpdateStatus(st, o, "FILLED"), m, "PARTIALLY_FILLED")
         ELSE UpdateStatus(UpdateStatus(st, m, "FILLED"), o, "FILLED")

\* _match, one iteration: the two update_status calls of the branch taken
MatchUpdates(st, o, m, diff) ==
    IF diff < 0
    THEN UpdateStatus(UpdateStatus(st, o, "PARTIALLY_FILLED"), m, "FILLED")
    ELSE IF diff > 0
         THEN UpdateStatus(UpdateStatus(st, m, "PARTIALLY_FILLED"), o, "FILLED")
         ELSE UpdateStatus(UpdateStatus(st, m, "FILLED"), o, "FILLED")

\* add_order with appendleft in place of append
AppendOrderFront(d, p, o) ==
    IF p \in DOMAIN d THEN SetKey(d, p, <<o>> \o d[p]) ELSE SetKey(d, p, <<o>>)

\* add_order: side[p].append(order), the level created if absent
AppendOrder(d, p, o) ==
    IF p \in DOMAIN d THEN SetKey(d, p, Append(d[p], o)) ELSE SetKey(d, p, <<o>>)

\* ------------------------------------------------------------------ initial state
\* main.py: the books and the clients are built first; no order exists
Init ==
    /\ nb_books = MaxBooks
    /\ books = [b \in Books |-> NewBook(b)]
    /\ orders = <<>>
    /\ active_orders = [c \in Clients |-> {}]
    /\ log = <<>>
    /\ notified = <<>>
    /\ pc = "idle"
    /\ cur_book = 0
    /\ cur_order = 0
    /\ result = "none"
    /\ submitted = 0
    /\ fills = 0
    /\ cancelled = 0
    /\ size0 = <<>>

\* ------------------------------------------------------------------ actions
\* Order(price, size, side, venue, owner)
OrderInit(price, size, side, venue, owner) ==
    /\ pc = "idle"
    /\ orders' = Append(orders, NewOrder(price, size, side, venue, owner))
    /\ notified' = Append(notified, <<>>)
    /\ size0' = Append(size0, size)
    /\ UNCHANGED <<book_vars, active_orders, log, pc, cur_book, cur_order, result, hist_vars>>

\* an exception leaves the call: nothing after it runs
Raise(err) ==
    /\ pc' = "idle"
    /\ cur_book' = 0
    /\ cur_order' = 0
    /\ result' = err

\* what update_status reads and writes, before any exception
State(ords, lg) ==
    [orders |-> ords, log |-> lg, notified |-> notified,
     active |-> active_orders, raised |-> FALSE]

\* add_order without `order.update_status(OrderStatus.POSTED)`
AddOrderNoPost(o) ==
    /\ pc = "idle"
    /\ o \in 1..Len(orders)
    /\ orders[o].status = "CREATED"
    /\ LET b == orders[o].venue
           count == NextCount(books[b].order_count)
           withId == [orders EXCEPT ![o].order_id = NewOrderId(books[b].book_id, count)]
       IN /\ books' = [books EXCEPT ![b].order_count = count]
          /\ orders' = withId
          /\ log' = <<>>
          /\ submitted' = submitted + orders[o].size
          /\ pc' = "crossing"
          /\ cur_book' = b
          /\ cur_order' = o
          /\ result' = "running"
    /\ UNCHANGED <<nb_books, notified, active_orders, fills, cancelled, size0>>

\* order.venue.add_order(order) on a fresh order, up to the crossing test:
\* assign_id(_new_order_id()) and update_status(POSTED)
AddOrder(o) ==
    /\ pc = "idle"
    /\ o \in 1..Len(orders)
    /\ orders[o].status = "CREATED"
    /\ LET b == orders[o].venue
           count == NextCount(books[b].order_count)
           withId == [orders EXCEPT ![o].order_id = NewOrderId(books[b].book_id, count)]
           st == UpdateStatus(State(withId, <<>>), o, "POSTED")
       IN /\ books' = [books EXCEPT ![b].order_count = count]
          /\ orders' = st.orders
          /\ log' = st.log
          /\ notified' = st.notified
          /\ active_orders' = st.active
          /\ submitted' = submitted + orders[o].size
          /\ IF st.raised
             THEN Raise("KeyError")
             ELSE /\ pc' = "crossing"
                  /\ cur_book' = b
                  /\ cur_order' = o
                  /\ result' = "running"
    /\ UNCHANGED <<nb_books, fills, cancelled, size0>>

\* add_order: if self._is_crossing(order): self._match(order)
Crossing ==
    /\ pc = "crossing"
    /\ pc' = IF IsCrossing(books[cur_book], orders[cur_order]) THEN "match" ELSE "insert"
    /\ UNCHANGED <<book_vars, orders, active_orders, log, notified, cur_book, cur_order,
                   result, hist_vars, size0>>

\* _match: the loop head and one iteration of the loop
Match ==
    /\ pc = "match"
    /\ LET o == cur_order
           book == books[cur_book]
           opposite_side == OppositeSide(book, orders[o])
       IN IF DOMAIN opposite_side = {}
          THEN /\ pc' = "insert"
               /\ UNCHANGED <<books, orders, active_orders, log, notified, cur_book,
                              cur_order, result, fills>>
          ELSE LET top_price == PeekItem(opposite_side)
               IN IF ~Condition(orders[o], Abs(top_price))
                  THEN /\ pc' = "insert"
                       /\ UNCHANGED <<books, orders, active_orders, log, notified,
                                      cur_book, cur_order, result, fills>>
                  ELSE LET m == Head(opposite_side[top_price])
                           diff == orders[m].size - orders[o].size
                           st == MatchUpdates(State(MatchSizes(orders, o, m), log), o, m, diff)
                       IN /\ books' = [books EXCEPT ![cur_book] =
                                  WithOpposite(book, orders[o],
                                               MatchLevels(opposite_side, top_price, diff))]
                          /\ orders' = st.orders
                          /\ log' = st.log
                          /\ notified' = st.notified
                          /\ active_orders' = st.active
                          /\ fills' = fills + 2 * Min(orders[m].size, orders[o].size)
                          /\ IF st.raised
                             THEN Raise("KeyError")
                             ELSE /\ pc' = IF diff < 0 THEN "match" ELSE "insert"
                                  /\ UNCHANGED <<cur_book, cur_order, result>>
    /\ UNCHANGED <<nb_books, submitted, cancelled, size0>>

\* add_order after the matching: the residual is appended to its level,
\* last_order is set and True is returned
Insert ==
    /\ pc = "insert"
    /\ LET o == cur_order
           book == books[cur_book]
           p == ConvertPrice(orders[o])
           rested == IF orders[o].size # 0
                     THEN WithSide(book, orders[o], AppendOrder(SideOf(book, orders[o]), p, o))
                     ELSE book
       IN books' = [books EXCEPT ![cur_book] = [rested EXCEPT !.last_order = o]]
    /\ pc' = "idle"
    /\ cur_book' = 0
    /\ cur_order' = 0
    /\ result' = "True"
    /\ UNCHANGED <<nb_books, orders, active_orders, log, notified, hist_vars, size0>>

\* remove_order that takes the presence of the level for the presence of the order
FoundLevel(book, order, o) ==
    ConvertPrice(order) \in DOMAIN SideOf(book, order)

\* remove_order: p in side, and side[p].remove(order) raises no ValueError
Found(book, order, o) ==
    /\ ConvertPrice(order) \in DOMAIN SideOf(book, order)
    /\ InDeque(SideOf(book, order)[ConvertPrice(order)], o)

\* remove_order without `del side[p]`
RemoveFromLevelKeep(d, p, o) == SetKey(d, p, DequeRemove(d[p], o))

\* remove_order: the level with the order removed, deleted if then empty
RemoveFromLevel(d, p, o) ==
    IF Len(DequeRemove(d[p], o)) = 0
    THEN DelKey(d, p)
    ELSE SetKey(d, p, DequeRemove(d[p], o))

\* books[b].remove_order(order), up to the CANCELLED update
RemoveOrder(b, o) ==
    /\ pc = "idle"
    /\ b \in Books
    /\ o \in 1..Len(orders)
    /\ LET book == books[b]
           side == SideOf(book, orders[o])
           p == ConvertPrice(orders[o])
       IN IF Found(book, orders[o], o)
          THEN /\ pc' = "cancel"
               /\ cur_book' = b
               /\ cur_order' = o
               /\ result' = "running"
               /\ books' = [books EXCEPT ![b] =
                      WithSide(book, orders[o], RemoveFromLevel(side, p, o))]
          ELSE /\ Raise("LOBUnknownOrderError")
               /\ UNCHANGED books
    /\ log' = <<>>
    /\ UNCHANGED <<nb_books, orders, active_orders, notified, hist_vars, size0>>

\* remove_order: order.update_status(CANCELLED), then True is returned
Cancel ==
    /\ pc = "cancel"
    /\ LET st == UpdateStatus(State(orders, log), cur_order, "CANCELLED")
       IN /\ orders' = st.orders
          /\ log' = st.log
          /\ notified' = st.notified
          /\ active_orders' = st.active
          /\ cancelled' = cancelled + orders[cur_order].size
          /\ IF st.raised THEN Raise("KeyError") ELSE Raise("True")
    /\ UNCHANGED <<book_vars, submitted, fills, size0>>

\* ------------------------------------------------------------------ specifications
\* one venue, one client
Next ==
    \/ /\ Len(orders) < MaxOrders
       /\ \A i \in 1..Len(orders) : orders[i].status # "CREATED"
       /\ \E price \in Prices, size \in Sizes, side \in Sides :
              OrderInit(price, size, side, 1, 1)
    \/ \E o \in 1..Len(orders) : AddOrder(o)
    \/ \E o \in 1..Len(orders) : RemoveOrder(1, o)
    \/ Crossing
    \/ Match
    \/ Insert
    \/ Cancel

Spec == Init /\ [][Next]_vars

\* every venue, one client
NextVenues ==
    \/ /\ Len(orders) < MaxOrdersV
       /\ \A i \in 1..Len(orders) : orders[i].status # "CREATED"
       /\ \E price \in 1..MaxPriceV, size \in Sizes, side \in Sides, venue \in Books :
              OrderInit(price, size, side, venue, 1)
    \/ \E o \in 1..Len(orders) : AddOrder(o)
    \/ \E b \in Books, o \in 1..Len(orders) : RemoveOrder(b, o)
    \/ Crossing
    \/ Match
    \/ Insert
    \/ Cancel

SpecVenues == Init /\ [][NextVenues]_vars

\* the first book has numbered some orders before, all of them since filled
\* or cancelled and dropped by their owners
InitIds ==
    /\ nb_books = MaxBooks
    /\ \E n \in 0..MaxCount :
           books = [b \in Books |->
                       IF b = 1 THEN [NewBook(b) EXCEPT !.order_count = n] ELSE NewBook(b)]
    /\ orders = <<>>
    /\ active_orders = [c \in Clients |-> {}]
    /\ log = <<>>
    /\ notified = <<>>
    /\ pc = "idle"
    /\ cur_book = 0
    /\ cur_order = 0
    /\ result = "none"
    /\ submitted = 0
    /\ fills = 0
    /\ cancelled = 0
    /\ size0 = <<>>

\* one venue, one client, a book that is not new
NextIds ==
    \/ /\ Len(orders) < MaxOrdersI
       /\ \A i \in 1..Len(orders) : orders[i].status # "CREATED"
       /\ \E price \in Prices, size \in Sizes, side \in Sides :
              OrderInit(price, size, side, 1, 1)
    \/ \E o \in 1..Len(orders) : AddOrder(o)
    \/ \E o \in 1..Len(orders) : RemoveOrder(1, o)
    \/ Crossing
    \/ Match
    \/ Insert
    \/ Cancel

SpecIds == InitIds /\ [][NextIds]_vars

\* Client.create_order up to the call of venue.add_order: the Order is built
\* with owner=self
CreateOrder(price, size, side, venue, owner) == OrderInit(price, size, side, venue, owner)

\* Client.cancel_order: order.venue.remove_order(order)
CancelOrder(o) ==
    /\ o \in 1..Len(orders)
    /\ RemoveOrder(orders[o].venue, o)

\* every venue, every client, the books reached through the clients only;
\* all the orders at one price (every SELL crosses every BUY)
NextClients ==
    \/ /\ Len(orders) < MaxOrdersC
       /\ \A i \in 1..Len(orders) : orders[i].status # "CREATED"
       /\ \E price \in {MaxPriceV}, size \in Sizes, side \in Sides,
             venue \in Books, owner \in Clients :
              CreateOrder(price, size, side, venue, owner)
    \/ \E o \in 1..Len(orders) : AddOrder(o)
    \/ \E o \in 1..Len(orders) : CancelOrder(o)
    \/ Crossing
    \/ Match
    \/ Insert
    \/ Cancel

SpecClients == Init /\ [][NextClients]_vars

\* the process has built n books, one after the other, before any order:
\* the i-th gets book_id i from the class counter nb_books.  The model
\* follows the first of them, which has numbered some orders before, and
\* the MaxBooks - 1 built last
InitBookIds ==
    /\ \E n \in MaxBooks..MaxBookId :
           /\ nb_books = n
           /\ \E c \in 0..MaxCount :
                  books = [b \in Books |->
                              IF b = 1 THEN [NewBook(1) EXCEPT !.order_count = c]
                              ELSE NewBook(n - MaxBooks + b)]
    /\ orders = <<>>
    /\ active_orders = [c \in Clients |-> {}]
    /\ log = <<>>
    /\ notified = <<>>
    /\ pc = "idle"
    /\ cur_book = 0
    /\ cur_order = 0
    /\ result = "none"
    /\ submitted = 0
    /\ fills = 0
    /\ cancelled = 0
    /\ size0 = <<>>

\* every followed venue, one client, all the orders at one price
NextBookIds ==
    \/ /\ Len(orders) < MaxOrdersI
       /\ \A i \in 1..Len(orders) : orders[i].status # "CREATED"
       /\ \E price \in {MaxPriceV}, size \in Sizes, side \in Sides, venue \in Books :
              OrderInit(price, size, side, venue, 1)
    \/ \E o \in 1..Len(orders) : AddOrder(o)
    \/ \E o \in 1..Len(orders) : CancelOrder(o)
    \/ Crossing
    \/ Match
    \/ Insert
    \/ Cancel

SpecBookIds == InitBookIds /\ [][NextBookIds]_vars

\* ------------------------------------------------------------------ properties
\* the orders resting in book b
Resting(b) == InDict(books[b].bids) \cup InDict(books[b].asks)

\* the prices of the resting asks / bids of a book
AskPrices(book) == DOMAIN book.asks
BidPrices(book) == {-k : k \in DOMAIN book.bids}

\* the best price of the opposite side exists and crosses the order:
\* lowest ask <= price for a BUY, highest bid >= price for a SELL
BestCrosses(book, order) ==
    IF order.side = "BUY"
    THEN \E p \in AskPrices(book) :
             (\A q \in AskPrices(book) : p <= q) /\ p <= order.price
    ELSE \E p \in BidPrices(book) :
             (\A q \in BidPrices(book) : p >= q) /\ p >= order.price

\* resting order n has a strictly better price than resting order m of the
\* same side: a lower ask, a higher bid
Better(n, m) ==
    /\ orders[n].side = orders[m].side
    /\ IF orders[m].side = "SELL"
       THEN orders[n].price < orders[m].price
       ELSE orders[n].price > orders[m].price

\* the level of a book in which order m rests
LevelOf(b, m) == SideOf(books[b], orders[m])[ConvertPrice(orders[m])]

\* C1: add_order runs the matching algorithm on the incoming order if and
\* only if the opposite side is non-empty and its best price (lowest ask for
\* a BUY, highest bid for a SELL) crosses the order's price.
C1_MatchIffBestCrosses ==
    [][pc = "crossing" =>
          ((pc' = "match") <=> BestCrosses(books[cur_book], orders[cur_order]))]_vars

\* C2: price priority: a resting order is never filled (its size reduced)
\* while another resting order of the same side of the same book has a
\* strictly better price.
C2_PricePriority ==
    [][\A b \in Books : \A m \in Resting(b) :
          orders'[m].size < orders[m].size =>
              ~\E n \in Resting(b) : Better(n, m)]_vars

\* every level holds its orders in arrival order (identifiers are issued on
\* arrival, in increasing order)
LevelsInArrivalOrder ==
    \A b \in Books : \A d \in {books[b].bids, books[b].asks} : \A k \in DOMAIN d :
        \A i, j \in 1..Len(d[k]) :
            i < j => orders[d[k][i]].order_id < orders[d[k][j]].order_id

\* only the head of a level is matched, and a partially filled resting order
\* stays at the head of its level
HeadOnly ==
    \A b \in Books : \A m \in Resting(b) :
        orders'[m].size < orders[m].size =>
            /\ m = Head(LevelOf(b, m))
            /\ orders'[m].size > 0 =>
                   /\ ConvertPrice(orders[m]) \in DOMAIN SideOf(books'[b], orders[m])
                   /\ m = Head(SideOf(books'[b], orders[m])[ConvertPrice(orders[m])])

\* C3: time priority: within a level orders are queued in arrival order,
\* only the head of the queue is matched, and a partially filled resting
\* order keeps the head of its level.
C3_TimePriority == []LevelsInArrivalOrder /\ [][HeadOnly]_vars

\* C3: two SELLs of size 1 rested at one price and a BUY of size 1 came at
\* that price: the first-arrived is FILLED, the second rests untouched
C3_Witness ==
    /\ pc = "idle"
    /\ \E a, b, c \in 1..Len(orders) :
        /\ orders[a].side = "SELL" /\ orders[b].side = "SELL" /\ orders[c].side = "BUY"
        /\ orders[a].price = orders[b].price /\ orders[c].price = orders[a].price
        /\ orders[a].order_id # 0 /\ orders[a].order_id < orders[b].order_id
        /\ orders[b].order_id < orders[c].order_id
        /\ orders[a].status = "FILLED" /\ orders[a].size = 0
        /\ orders[c].status = "FILLED" /\ orders[c].size = 0
        /\ orders[b].status = "POSTED" /\ orders[b].size = 1
        /\ b \in Resting(1)
        /\ fills = 2

\* the orders resting in any book
AllResting == UNION {Resting(b) : b \in Books}

RECURSIVE SumSizes(_)
\* the sum of the current sizes of a set of orders
SumSizes(S) ==
    IF S = {} THEN 0
    ELSE LET x == CHOOSE y \in S : TRUE IN orders[x].size + SumSizes(S \ {x})

\* between calls: resting + filled = submitted - cancelled
Conservation ==
    pc = "idle" => SumSizes(AllResting) + fills = submitted - cancelled

\* a step changes no size, or it is a match step that takes the same
\* quantity q > 0 from the incoming order and from one resting order
SizeSteps ==
    LET changed == {o \in 1..Len(orders) : orders'[o].size # orders[o].size}
    IN \/ changed = {} /\ fills' = fills
       \/ /\ pc = "match"
          /\ \E m \in Resting(cur_book) :
                LET q == orders[m].size - orders'[m].size
                IN /\ m # cur_order
                   /\ changed = {cur_order, m}
                   /\ q > 0
                   /\ orders'[m].size >= 0
                   /\ orders'[cur_order].size = orders[cur_order].size - q
                   /\ orders'[cur_order].size >= 0
                   /\ fills' = fills + 2 * q

\* C4: size conservation: between calls, the sizes of the resting orders plus
\* the sizes consumed into fills equal the sizes submitted minus the sizes
\* cancelled (at cancellation time); a match step takes the same quantity
\* from the incoming and from the resting order, and no other step changes a
\* size.
C4_Conservation == []Conservation /\ [][SizeSteps]_vars

\* C4: something was filled, something cancelled and something still rests
C4_Witness ==
    /\ pc = "idle"
    /\ fills > 0
    /\ cancelled > 0
    /\ SumSizes(AllResting) > 0

\* the (previous, new) status pairs of the order state machine
Allowed ==
    {<<"CREATED", "POSTED">>,
     <<"POSTED", "PARTIALLY_FILLED">>, <<"POSTED", "FILLED">>, <<"POSTED", "CANCELLED">>,
     <<"PARTIALLY_FILLED", "PARTIALLY_FILLED">>, <<"PARTIALLY_FILLED", "FILLED">>,
     <<"PARTIALLY_FILLED", "CANCELLED">>}

\* the notifications delivered for order o are a path of the state machine
\* from CREATED to the order's status, through POSTED exactly once
NotifiedChain(o) ==
    LET n == notified[o]
    IN /\ \A i \in 1..Len(n) : <<n[i].last_status, n[i].status>> \in Allowed
       /\ \A i \in 1..(Len(n) - 1) : n[i + 1].last_status = n[i].status
       /\ IF Len(n) = 0
          THEN orders[o].status = "CREATED"
          ELSE n[1].last_status = "CREATED" /\ n[Len(n)].status = orders[o].status
       /\ Cardinality({i \in 1..Len(n) : n[i].status = "POSTED"}) =
              IF orders[o].status = "CREATED" THEN 0 ELSE 1

\* a step delivers, for each order, either nothing (and its status is
\* unchanged) or one notification carrying its new and its previous status
StepNotifies ==
    \A o \in 1..Len(orders) :
        /\ Len(notified'[o]) \in {Len(notified[o]), Len(notified[o]) + 1}
        /\ SubSeq(notified'[o], 1, Len(notified[o])) = notified[o]
        /\ IF Len(notified'[o]) = Len(notified[o])
           THEN orders'[o].status = orders[o].status
           ELSE /\ notified'[o][Len(notified'[o])] =
                       [status |-> orders'[o].status, last_status |-> orders[o].status]
                /\ \E i \in {Len(log') - 1, Len(log')} \cap (1..Len(log')) :
                       log'[i] = [order |-> o, status |-> orders'[o].status,
                                  last_status |-> orders[o].status]

\* FILLED and CANCELLED are terminal
TerminalFrozen ==
    \A o \in 1..Len(orders) :
        orders[o].status \in {"FILLED", "CANCELLED"} =>
            orders'[o] = orders[o] /\ notified'[o] = notified[o]

\* C5: order status state machine: every status change fires exactly one
\* notification carrying (order, new status, previous status), every
\* (previous, new) pair is one of the seven allowed ones, POSTED is entered
\* exactly once per order, and a FILLED or CANCELLED order never changes
\* again and is never notified again.
C5_StatusMachine ==
    [](\A o \in 1..Len(orders) : NotifiedChain(o)) /\ [][StepNotifies /\ TerminalFrozen]_vars

\* C5: one order went CREATED -> POSTED -> PARTIALLY_FILLED ->
\* PARTIALLY_FILLED -> CANCELLED, another was FILLED, and a later
\* remove_order of one of them failed
C5_Witness ==
    /\ pc = "idle"
    /\ result = "LOBUnknownOrderError"
    /\ \E o, f \in 1..Len(orders) :
        /\ orders[f].status = "FILLED"
        /\ Len(notified[o]) = 4
        /\ notified[o][3] = [status |-> "PARTIALLY_FILLED", last_status |-> "PARTIALLY_FILLED"]
        /\ notified[o][4] = [status |-> "CANCELLED", last_status |-> "PARTIALLY_FILLED"]

\* C6: unknown cancellation: remove_order of an order that does not rest in
\* the book it is called on (filled, cancelled, never submitted, or resting
\* in another book, whatever this book holds at the order's side and price)
\* fails with LOBUnknownOrderError, and leaves the books, the orders and the
\* clients as they were and delivers no notification.
C6_UnknownCancel ==
    [][\/ /\ result' = "LOBUnknownOrderError"
          /\ pc' = "idle"
          /\ log' = <<>>
          /\ UNCHANGED <<nb_books, books, orders, active_orders, notified, hist_vars>>
       \/ pc # "idle"
       \/ \A b \in Books : \A o \in (1..Len(orders)) \ Resting(b) : ~RemoveOrder(b, o)]_vars

\* C6: two orders rest at the same side and price of two different books,
\* and the last call, a remove_order of one of them, failed: it was made on
\* a book that does not hold it (and, with two books, holds the other order
\* at that very level)
C6_Witness ==
    /\ pc = "idle"
    /\ result = "LOBUnknownOrderError"
    /\ Len(orders) = 2
    /\ orders[1].venue # orders[2].venue
    /\ orders[1].side = orders[2].side
    /\ orders[1].price = orders[2].price
    /\ 1 \in Resting(orders[1].venue)
    /\ 2 \in Resting(orders[2].venue)

\* sequence q without order o
Without(q, o) == SelectSeq(q, LAMBDA x : x # o)

\* d2 is d with order o taken out of level p, the level gone if o was alone
RemovedFrom(d, d2, p, o) ==
    /\ DOMAIN d2 = IF d[p] = <<o>> THEN (DOMAIN d) \ {p} ELSE DOMAIN d
    /\ \A k \in DOMAIN d2 : d2[k] = IF k = p THEN Without(d[p], o) ELSE d[k]

\* remove_order of a resting order: first the order alone leaves the book,
\* nothing else changes and nothing is delivered yet
CancelRemoves ==
    pc = "idle" => \A b \in Books : \A o \in Resting(b) :
        RemoveOrder(b, o) =>
            /\ pc' = "cancel" /\ cur_order' = o /\ cur_book' = b
            /\ log' = <<>>
            /\ UNCHANGED <<orders, notified, active_orders>>
            /\ \A c \in Books \ {b} : books'[c] = books[c]
            /\ books'[b].order_count = books[b].order_count
            /\ books'[b].book_id = books[b].book_id
            /\ books'[b].last_order = books[b].last_order
            /\ RemovedFrom(SideOf(books[b], orders[o]), SideOf(books'[b], orders[o]),
                           ConvertPrice(orders[o]), o)
            /\ OppositeSide(books'[b], orders[o]) = OppositeSide(books[b], orders[o])

\* remove_order of a resting order: then one CANCELLED notification is
\* delivered for it, and only its status changes
CancelNotifies ==
    pc = "cancel" =>
        /\ cur_order \notin AllResting
        /\ UNCHANGED <<nb_books, books>>
        /\ orders' = [orders EXCEPT ![cur_order].status = "CANCELLED"]
        /\ log' = <<[order |-> cur_order, status |-> "CANCELLED",
                     last_status |-> orders[cur_order].status]>>
        /\ pc' = "idle"
        /\ result' = "True"

\* C7: successful cancellation: remove_order of a resting order removes
\* exactly that order from its level, deletes the level if it became empty,
\* then fires exactly one CANCELLED notification for it, and changes neither
\* the order's size, nor any other resting order, nor the order of the rest
\* of the level, nor another level, nor the identifier counter.
C7_Cancel == [][CancelRemoves /\ CancelNotifies]_vars

\* C7: the last call cancelled the order that arrived second of three at
\* one level; the first and the third still rest there, in that order
C7_Witness ==
    /\ pc = "idle"
    /\ result = "True"
    /\ \E o \in 1..Len(orders) :
        /\ log = <<[order |-> o, status |-> "CANCELLED", last_status |-> "POSTED"]>>
        /\ ConvertPrice(orders[o]) \in DOMAIN SideOf(books[1], orders[o])
        /\ LET q == SideOf(books[1], orders[o])[ConvertPrice(orders[o])]
           IN /\ Len(q) = 2
              /\ orders[q[1]].order_id < orders[o].order_id
              /\ orders[o].order_id < orders[q[2]].order_id

\* C9: resting-order invariant: when no call is running, every order in bids
\* is a BUY and every order in asks is a SELL, every resting order has
\* size > 0 and sits in the level keyed by its own price.
C9_RestingOrders ==
    pc = "idle" =>
        \A b \in Books :
            /\ \A k \in DOMAIN books[b].bids : \A i \in 1..Len(books[b].bids[k]) :
                   LET order == orders[books[b].bids[k][i]]
                   IN order.side = "BUY" /\ order.size > 0 /\ order.price = -k
            /\ \A k \in DOMAIN books[b].asks : \A i \in 1..Len(books[b].asks[k]) :
                   LET order == orders[books[b].asks[k][i]]
                   IN order.side = "SELL" /\ order.size > 0 /\ order.price = k

\* C9: both sides hold orders, one of them partially filled
C9_Witness ==
    /\ pc = "idle"
    /\ DOMAIN books[1].bids # {}
    /\ DOMAIN books[1].asks # {}
    /\ \E o \in Resting(1) : orders[o].status = "PARTIALLY_FILLED"

\* C10: level cleanup: in every state, between calls and at every iteration
\* of the matching loop, no level of bids or asks holds an empty queue: when
\* the last order of a level is matched or cancelled the key is gone.
C10_NoEmptyLevel ==
    \A b \in Books : \A d \in {books[b].bids, books[b].asks} :
        \A k \in DOMAIN d : Len(d[k]) > 0

\* C10: inside the matching loop, the level of an order that was just FILLED
\* is gone; and an order was cancelled whose level is gone too
C10_Witness ==
    /\ pc = "match"
    /\ \E m, c \in 1..Len(orders) :
        /\ orders[m].status = "FILLED"
        /\ log[Len(log)] = [order |-> m, status |-> "FILLED", last_status |-> "POSTED"]
        /\ ConvertPrice(orders[m]) \notin DOMAIN SideOf(books[1], orders[m])
        /\ orders[c].status = "CANCELLED"
        /\ ConvertPrice(orders[c]) \notin DOMAIN SideOf(books[1], orders[c])

\* the orders a book has numbered carry pairwise distinct identifiers
IdsDistinct ==
    \A a, b \in 1..Len(orders) :
        (a # b /\ orders[a].order_id # 0 /\ orders[b].order_id # 0
              /\ orders[a].venue = orders[b].venue) =>
            orders[a].order_id # orders[b].order_id

\* an identifier, once assigned, never changes, and a newly assigned one is
\* greater than every identifier the book assigned before, whether its order
\* still rests or was filled or cancelled
IdsIncrease ==
    \A o \in 1..Len(orders) :
        /\ orders[o].order_id # 0 => orders'[o].order_id = orders[o].order_id
        /\ (orders[o].order_id = 0 /\ orders'[o].order_id # 0) =>
               \A n \in 1..Len(orders) :
                   (orders[n].order_id # 0 /\ orders[n].venue = orders[o].venue) =>
                       orders[n].order_id < orders'[o].order_id

\* C8: identifier uniqueness within a book: the identifiers a book assigns
\* are pairwise distinct and strictly increasing in submission order, and
\* none is reused after its order is filled or cancelled.
C8_Identifiers == []IdsDistinct /\ [][IdsIncrease]_vars

\* C8: the ninth and the tenth order of the first book: identifiers 19 and
\* 110, the ninth order no longer in the book when the tenth came
C8_Witness ==
    /\ pc = "idle"
    /\ Len(orders) = 2
    /\ orders[1].order_id = 19
    /\ orders[1].status \in {"FILLED", "CANCELLED"}
    /\ orders[2].order_id = 110
    /\ orders[2].status = "POSTED"
    /\ log = <<[order |-> 2, status |-> "POSTED", last_status |-> "CREATED"]>>

\* ------------------------------------------------------------------ C11
\* the step of _match that examines a head resting order m larger than what
\* is left of the incoming order o: m loses exactly that quantity and stays
\* where it is (no level is touched), o is emptied, m is notified
\* PARTIALLY_FILLED and then o FILLED, no other order changes and the loop
\* is left
PartialFillStep ==
    (pc = "match" /\ DOMAIN OppositeSide(books[cur_book], orders[cur_order]) # {}) =>
        LET o == cur_order
            d == OppositeSide(books[cur_book], orders[o])
            top == PeekItem(d)
            m == Head(d[top])
            s == orders[o].size
        IN (Condition(orders[o], Abs(top)) /\ orders[m].size > s) =>
               /\ s > 0
               /\ orders' = [orders EXCEPT ![m].size = orders[m].size - s,
                                           ![m].status = "PARTIALLY_FILLED",
                                           ![o].size = 0,
                                           ![o].status = "FILLED"]
               /\ books' = books
               /\ m = Head(LevelOf(cur_book, m))
               /\ log' = log \o
                      <<[order |-> m, status |-> "PARTIALLY_FILLED",
                         last_status |-> orders[m].status],
                        [order |-> o, status |-> "FILLED",
                         last_status |-> orders[o].status]>>
               /\ pc' = "insert"

\* an incoming order that was emptied is not inserted: add_order returns
\* with the two sides of every book as the matching left them
FilledNotInserted ==
    (pc = "insert" /\ orders[cur_order].size = 0) =>
        /\ pc' = "idle"
        /\ result' = "True"
        /\ UNCHANGED <<orders, log>>
        /\ \A b \in Books : /\ books'[b].bids = books[b].bids
                            /\ books'[b].asks = books[b].asks

\* C11: partial fill of a resting order: when the incoming order O, with
\* remaining size s > 0, is matched against a head resting order M with
\* M.size > s, then M.size decreases by exactly s, M stays the head of its
\* level (the level is not deleted), O.size becomes 0, M's owner is notified
\* PARTIALLY_FILLED and then O's owner FILLED, matching stops at once (no
\* other resting order is touched) and O is not inserted into the book.
C11_PartialFill == [][PartialFillStep /\ FilledNotInserted]_vars

\* C11: a SELL of size MaxSize rested and a BUY of size 1 came at its price:
\* the SELL rests PARTIALLY_FILLED with MaxSize - 1 at the head of its level,
\* the BUY is FILLED and in no book, and the call delivered POSTED for the
\* BUY, PARTIALLY_FILLED for the SELL, FILLED for the BUY, in that order
C11_Witness ==
    /\ pc = "idle"
    /\ result = "True"
    /\ Len(orders) = 2
    /\ orders[1].side = "SELL" /\ orders[2].side = "BUY"
    /\ size0[1] = MaxSize /\ size0[2] = 1
    /\ orders[1].size = MaxSize - 1 /\ orders[1].status = "PARTIALLY_FILLED"
    /\ orders[2].size = 0 /\ orders[2].status = "FILLED"
    /\ orders[1].price \in DOMAIN books[1].asks
    /\ Head(books[1].asks[orders[1].price]) = 1
    /\ 2 \notin AllResting
    /\ log = <<[order |-> 2, status |-> "POSTED", last_status |-> "CREATED"],
               [order |-> 1, status |-> "PARTIALLY_FILLED", last_status |-> "POSTED"],
               [order |-> 2, status |-> "FILLED", last_status |-> "POSTED"]>>

\* ------------------------------------------------------------------ C12
\* the step in which an order leaves CREATED: it gets its identifier and
\* POSTED, that one notification is delivered, and nothing is matched in it
\* (no size, no level, no fill)
PostedStep ==
    \A o \in 1..Len(orders) :
        (orders[o].status = "CREATED" /\ orders'[o].status # "CREATED") =>
            /\ orders'[o].status = "POSTED"
            /\ orders'[o].order_id # 0
            /\ log' = <<[order |-> o, status |-> "POSTED", last_status |-> "CREATED"]>>
            /\ \A n \in 1..Len(orders) : orders'[n].size = orders[n].size
            /\ \A b \in Books : /\ books'[b].bids = books[b].bids
                                /\ books'[b].asks = books[b].asks
            /\ fills' = fills
            /\ pc' = "crossing"
            /\ cur_order' = o

\* while add_order runs past that step, the first notification of the call
\* is the CREATED -> POSTED of the incoming order, and every later one is a
\* PARTIALLY_FILLED or a FILLED
PostedBefore ==
    pc \in {"crossing", "match", "insert"} =>
        /\ orders[cur_order].order_id # 0
        /\ Len(log) >= 1
        /\ log[1] = [order |-> cur_order, status |-> "POSTED", last_status |-> "CREATED"]
        /\ \A i \in 2..Len(log) : log[i].status \in {"PARTIALLY_FILLED", "FILLED"}

\* sizes change and PARTIALLY_FILLED / FILLED are delivered in the matching
\* loop only
MatchingOnlyInMatch ==
    pc # "match" =>
        /\ \A n \in 1..Len(orders) : orders'[n].size = orders[n].size
        /\ \A i \in (Len(log) + 1)..Len(log') :
               log'[i].status \notin {"PARTIALLY_FILLED", "FILLED"}
        /\ Len(log') > Len(log) => log'[Len(log')].status \in {"POSTED", "CANCELLED"}

\* C12: POSTED comes first: for every add_order call, the incoming order's
\* identifier is assigned and its CREATED -> POSTED notification is delivered
\* before any matching occurs, i.e. before any order's size changes and
\* before any PARTIALLY_FILLED or FILLED notification caused by this call is
\* delivered to any owner.
C12_PostedFirst == []PostedBefore /\ [][PostedStep /\ MatchingOnlyInMatch]_vars

\* C12: add_order is about to match a crossing order: POSTED is the only
\* notification of the call so far, the order has its identifier, and no
\* order has lost any size yet
C12_Witness ==
    /\ pc = "match"
    /\ orders[cur_order].order_id # 0
    /\ log = <<[order |-> cur_order, status |-> "POSTED", last_status |-> "CREATED"]>>
    /\ DOMAIN OppositeSide(books[cur_book], orders[cur_order]) # {}
    /\ \A n \in 1..Len(orders) : orders[n].size = size0[n]
    /\ fills = 0

\* ------------------------------------------------------------------ C13
\* order o is the last element of the level of its side and price in the
\* book it was sent to, for the books bks
AtTail(bks, o) ==
    LET d == SideOf(bks[orders[o].venue], orders[o])
        p == ConvertPrice(orders[o])
    IN /\ p \in DOMAIN d
       /\ d[p][Len(d[p])] = o

\* the status of a submitted, non-cancelled order tells its fill history:
\* POSTED iff nothing was taken from it, PARTIALLY_FILLED iff something was
\* and something is left, FILLED iff nothing is left
StatusTellsFills ==
    \A o \in 1..Len(orders) :
        orders[o].status \notin {"CREATED", "CANCELLED"} =>
            /\ orders[o].status \in {"POSTED", "PARTIALLY_FILLED", "FILLED"}
            /\ orders[o].size >= 0 /\ orders[o].size <= size0[o]
            /\ (orders[o].status = "POSTED") <=> (orders[o].size = size0[o])
            /\ (orders[o].status = "PARTIALLY_FILLED") <=>
                   (0 < orders[o].size /\ orders[o].size < size0[o])
            /\ (orders[o].status = "FILLED") <=> (orders[o].size = 0)

\* add_order has just returned: a resting incoming order is the tail of its
\* level, a FILLED one is in no book
ReturnsRestingAtTail ==
    (pc = "insert" /\ pc' = "idle") =>
        LET o == cur_order
        IN /\ result' = "True"
           /\ size0[o] > 0
           /\ orders'[o].status \in {"POSTED", "PARTIALLY_FILLED", "FILLED"}
           /\ orders'[o].status \in {"POSTED", "PARTIALLY_FILLED"} => AtTail(books', o)
           /\ orders'[o].status = "FILLED" => o \notin AllResting'

\* C13: status reflects fill history: when add_order(O) returns (O fresh,
\* size s0 > 0), exactly one of these holds: O is POSTED with size s0 and
\* rests at the tail of its price level; O is PARTIALLY_FILLED with
\* 0 < size < s0 and rests at the tail of its price level; O is FILLED with
\* size 0 and is not in the book.  The same status/size relation holds in
\* every reachable state for every non-cancelled order.
C13_StatusReflectsFills == []StatusTellsFills /\ [][ReturnsRestingAtTail]_vars

\* C13: a SELL of size 1 rested, a BUY of size MaxSize came at its price
\* and then a second BUY at that price: the SELL is FILLED with size 0 and in
\* no book, the first BUY is PARTIALLY_FILLED with MaxSize - 1 left, the
\* second BUY is POSTED with its full size and rests behind the first
C13_Witness ==
    /\ pc = "idle"
    /\ result = "True"
    /\ Len(orders) = 3
    /\ orders[1].side = "SELL" /\ orders[2].side = "BUY" /\ orders[3].side = "BUY"
    /\ orders[2].price = orders[3].price
    /\ size0[1] = 1 /\ size0[2] = MaxSize
    /\ orders[1].status = "FILLED" /\ orders[1].size = 0 /\ 1 \notin AllResting
    /\ orders[2].status = "PARTIALLY_FILLED" /\ orders[2].size = MaxSize - 1
    /\ orders[3].status = "POSTED" /\ orders[3].size = size0[3]
    /\ books[1].bids[-orders[3].price] = <<2, 3>>
    /\ log[1].order = 3

\* ------------------------------------------------------------------ C14
\* the book the running call, or the call that starts in this step, is made on
CalledBook == IF pc = "idle" THEN cur_book' ELSE cur_book

\* a step of a call on one book leaves every other book (bids, asks, counter)
\* and every order resting in another book as they are
OtherBooksUntouched ==
    \A c \in Books \ {CalledBook} :
        /\ books'[c] = books[c]
        /\ \A o \in Resting(c) : orders'[o] = orders[o]

\* an order rests only in the book it was sent to, and the orders a step
\* takes quantity from were sent to one and the same book
NoCrossVenueMatch ==
    /\ \A b \in Books : \A o \in Resting(b) : orders[o].venue = b
    /\ \A n, m \in 1..Len(orders) :
           (orders'[n].size # orders[n].size /\ orders'[m].size # orders[m].size) =>
               orders[n].venue = orders[m].venue

\* the identifier of the k-th order sent to a book is made of the book's
\* identifier and k, however many orders the other books received before
IdsPerBook ==
    \A o \in 1..Len(orders) :
        orders[o].order_id # 0 =>
            orders[o].order_id =
                ConcatDigits(books[orders[o].venue].book_id,
                             Cardinality({n \in 1..o : /\ orders[n].order_id # 0
                                                       /\ orders[n].venue = orders[o].venue}))

\* C14: venue independence: with two or more books, an add_order or
\* remove_order call on book A leaves book B's bids, asks, order counter and
\* the size and status of every order resting in B unchanged; an order
\* submitted to A never matches liquidity resting in B, and the identifier
\* sequence B issues does not depend on how many orders were submitted to A.
C14_VenueIndependence ==
    []IdsPerBook /\ [][OtherBooksUntouched /\ NoCrossVenueMatch]_vars

\* C14: a SELL rests on one venue and a BUY at the same price was sent to
\* another: both rest untouched, each in its own book, and each carries the
\* first identifier of its book
C14_Witness ==
    /\ pc = "idle"
    /\ result = "True"
    /\ Len(orders) = 2
    /\ orders[1].side = "SELL" /\ orders[2].side = "BUY"
    /\ orders[2].price >= orders[1].price
    /\ orders[1].venue # orders[2].venue
    /\ \A o \in 1..2 :
           /\ orders[o].status = "POSTED"
           /\ orders[o].size = size0[o]
           /\ o \in Resting(orders[o].venue)
           /\ orders[o].order_id = ConcatDigits(books[orders[o].venue].book_id, 1)
           /\ books[orders[o].venue].order_count = 1

\* ------------------------------------------------------------------ C15
\* every order whose size a step reduces is either the incoming order of a
\* running _match or a resting order of the opposite side of its book whose
\* price the incoming order's limit reaches
NoTradeThrough ==
    \A m \in 1..Len(orders) :
        orders'[m].size # orders[m].size =>
            /\ pc = "match"
            /\ orders'[cur_order].size < orders[cur_order].size
            /\ m # cur_order =>
                   /\ m \in Resting(cur_book)
                   /\ orders'[m].size < orders[m].size
                   /\ IF orders[cur_order].side = "BUY"
                      THEN /\ orders[m].side = "SELL"
                           /\ orders[m].price <= orders[cur_order].price
                      ELSE /\ orders[m].side = "BUY"
                           /\ orders[m].price >= orders[cur_order].price

\* C15: no trade-through of the limit price: in any sequence of operations,
\* an incoming BUY is only ever matched against resting asks whose price is
\* <= the BUY's price, and an incoming SELL only against resting bids whose
\* price is >= the SELL's price; no match step ever pairs two orders whose
\* prices do not cross.
C15_NoTradeThrough == [][NoTradeThrough]_vars

\* C15: a BUY was matched against a resting SELL priced strictly below its
\* limit: both are FILLED
C15_Witness ==
    /\ pc = "idle"
    /\ result = "True"
    /\ Len(orders) = 2
    /\ orders[1].side = "SELL" /\ orders[2].side = "BUY"
    /\ orders[1].price < orders[2].price
    /\ orders[1].status = "FILLED" /\ orders[2].status = "FILLED"
    /\ orders[1].size = 0 /\ orders[2].size = 0
    /\ fills = 2 * size0[1]
    /\ log[Len(log)].order = 2

\* ------------------------------------------------------------------ C16
\* C16: the book is never left crossed: after every add_order or
\* remove_order call returns, the highest resting bid price is strictly
\* lower than the lowest resting ask price (whenever both sides are
\* non-empty); an incoming order rests only if no opposite resting order
\* crosses it.
C16_NeverCrossed ==
    pc = "idle" =>
        \A b \in Books :
            \A bid \in BidPrices(books[b]), ask \in AskPrices(books[b]) : bid < ask

\* ------------------------------------------------------------------ C17
\* the number of times order o occurs in deque q
Occurrences(q, o) == Cardinality({i \in 1..Len(q) : q[i] = o})

RECURSIVE SumOver(_, _)
\* the sum of f over the finite set S of its domain
SumOver(f, S) ==
    IF S = {} THEN 0
    ELSE LET x == CHOOSE y \in S : TRUE IN f[x] + SumOver(f, S \ {x})

\* the number of times order o occurs in SortedDict d, over all its levels
InDictTimes(d, o) == SumOver([k \in DOMAIN d |-> Occurrences(d[k], o)], DOMAIN d)

\* the number of times order o occurs in the books, over all books and sides
Copies(o) ==
    SumOver([b \in Books |-> InDictTimes(books[b].bids, o) + InDictTimes(books[b].asks, o)],
            Books)

\* the SortedDict of a book for a side
SideDict(book, side) == IF side = "BUY" THEN book.bids ELSE book.asks

\* whatever a level holds is a POSTED or PARTIALLY_FILLED order of that
\* book, side and price, and the level holds it once
HeldOnceInOwnLevel ==
    \A b \in Books : \A side \in Sides :
        \A k \in DOMAIN SideDict(books[b], side) :
            LET q == SideDict(books[b], side)[k]
            IN \A i \in 1..Len(q) :
                   /\ orders[q[i]].venue = b
                   /\ orders[q[i]].side = side
                   /\ ConvertPrice(orders[q[i]]) = k
                   /\ orders[q[i]].status \in {"POSTED", "PARTIALLY_FILLED"}
                   /\ \A j \in 1..Len(q) : j # i => q[j] # q[i]

\* order o is held by the level of its side and price of the book it was
\* sent to, for the books bks
Held(bks, o) ==
    /\ ConvertPrice(orders[o]) \in DOMAIN SideOf(bks[orders[o].venue], orders[o])
    /\ InDeque(SideOf(bks[orders[o].venue], orders[o])[ConvertPrice(orders[o])], o)

\* every POSTED or PARTIALLY_FILLED order but the one a running call is
\* handling is held by the level of its side and price of its book
LiveIsHeld ==
    \A o \in (1..Len(orders)) \ {cur_order} :
        orders[o].status \in {"POSTED", "PARTIALLY_FILLED"} => Held(books, o)

\* an order is held exactly once, in its own level, if it is POSTED or
\* PARTIALLY_FILLED, and not at all otherwise (the order of the running call
\* apart: it is inserted last, and reported CANCELLED after its removal)
RestingIffLive == HeldOnceInOwnLevel /\ LiveIsHeld

\* an order leaves the books only when it is FILLED or being cancelled
LeavesByFillOrCancel ==
    \A o \in 1..Len(orders) :
        (Held(books, o) /\ ~Held(books', o)) =>
            \/ orders'[o].status = "FILLED" /\ orders'[o].size = 0
            \/ pc = "idle" /\ pc' = "cancel" /\ cur_order' = o

\* C17: no dropped or duplicated resting orders: after each call returns, an
\* order that was submitted appears in the book exactly once (on one side, in
\* one level) if and only if its status is POSTED or PARTIALLY_FILLED; an
\* order whose status is FILLED or CANCELLED appears in no level; an order
\* leaves the book only by being fully filled or cancelled.
C17_NoDropNoDuplicate == []RestingIffLive /\ [][LeavesByFillOrCancel]_vars

\* C17: of three submitted orders one was FILLED, one rests PARTIALLY_FILLED
\* and one was cancelled: the book holds the second, once, and nothing else
C17_Witness ==
    /\ pc = "idle"
    /\ Len(orders) = 3
    /\ \E f, r, c \in 1..3 :
           /\ orders[f].status = "FILLED"
           /\ orders[r].status = "PARTIALLY_FILLED"
           /\ orders[c].status = "CANCELLED"
           /\ AllResting = {r}
           /\ Copies(r) = 1 /\ Copies(f) = 0 /\ Copies(c) = 0

\* ------------------------------------------------------------------ C18
\* when no call runs, a client's active_orders are exactly its orders that
\* rest in some book, and those are its POSTED and PARTIALLY_FILLED orders
ActiveIsResting ==
    pc = "idle" =>
        \A c \in Clients :
            /\ active_orders[c] = {o \in AllResting : orders[o].owner = c}
            /\ active_orders[c] =
                   {o \in 1..Len(orders) :
                        /\ orders[o].owner = c
                        /\ orders[o].status \in {"POSTED", "PARTIALLY_FILLED"}}

\* no call was ended by the KeyError of a set.remove in receive_update
NoHandlerFailure == result # "KeyError"

\* C18: owner bookkeeping: for any sequence of Client.create_order and
\* Client.cancel_order calls by any number of clients on any number of
\* books, after each call returns every client's active_orders set equals
\* exactly the set of that client's orders that are currently resting in
\* some book (status POSTED or PARTIALLY_FILLED), and receive_update never
\* tries to remove an order that is not in the set.
C18_OwnerBookkeeping == ActiveIsResting /\ NoHandlerFailure

\* C18: the SELL of one client rested and the BUY of size 1 of another
\* client took part of it: the first client still tracks its
\* PARTIALLY_FILLED order, the second, whose order was FILLED, tracks none
C18_Witness ==
    /\ pc = "idle"
    /\ result = "True"
    /\ Len(orders) = 2
    /\ orders[1].owner # orders[2].owner
    /\ orders[1].status = "PARTIALLY_FILLED"
    /\ orders[2].status = "FILLED"
    /\ active_orders[orders[1].owner] = {1}
    /\ active_orders[orders[2].owner] = {}
    /\ notified[2] = <<[status |-> "POSTED", last_status |-> "CREATED"],
                       [status |-> "FILLED", last_status |-> "POSTED"]>>

\* ------------------------------------------------------------------ C19
\* the orders resting on the side opposite to the incoming order of the
\* running add_order
OppositeOrders == InDict(OppositeSide(books[cur_book], orders[cur_order]))

\* the loop head of _match finds nothing to match: no opposite level, or the
\* level examined does not satisfy the crossing condition
NothingToMatch ==
    IF DOMAIN OppositeSide(books[cur_book], orders[cur_order]) = {}
    THEN TRUE
    ELSE ~Condition(orders[cur_order],
                    Abs(PeekItem(OppositeSide(books[cur_book], orders[cur_order]))))

\* a step of the matching loop either leaves the loop or takes one resting
\* order out of the opposite side
LoopProgress ==
    pc = "match" =>
        \/ pc' = "insert"
        \/ /\ pc' = "match"
           /\ OppositeOrders' \subseteq OppositeOrders
           /\ Cardinality(OppositeOrders') = Cardinality(OppositeOrders) - 1

\* the loop is left exactly when nothing is left to match (without touching
\* anything) or when the iteration just made emptied the incoming order
LoopEnds ==
    pc = "match" =>
        /\ orders[cur_order].size > 0
        /\ IF NothingToMatch
           THEN pc' = "insert" /\ UNCHANGED <<orders, books, log>>
           ELSE /\ Len(log') = Len(log) + 2
                /\ (pc' = "insert") <=> (orders'[cur_order].size = 0)
                /\ (pc' = "match") <=> (orders'[cur_order].size > 0)

\* the iterations made so far by the running add_order: each delivers two
\* notifications after the POSTED one
Iterations == (Len(log) - 1) \div 2

\* the resting orders the running add_order has taken out of the book
Consumed == {log[i].order : i \in {j \in 2..Len(log) : log[j].status = "FILLED"}} \ {cur_order}

\* the iterations made are at most the orders that rested on the opposite
\* side when the call started (those still there and those taken out)
IterationBound ==
    pc \in {"crossing", "match", "insert"} =>
        Iterations <= Cardinality(OppositeOrders) + Cardinality(Consumed)

\* the level the loop head is about to match holds an order: top_orders[0]
\* exists
ExaminedLevelHasHead ==
    (pc = "match" /\ ~NothingToMatch) =>
        LET d == OppositeSide(books[cur_book], orders[cur_order])
        IN /\ Len(d[PeekItem(d)]) > 0
           /\ Head(d[PeekItem(d)]) \in 1..Len(orders)

\* add_order only moves forward: from the crossing test to the loop or to
\* the insertion, from the loop to the insertion, from the insertion to its
\* return with True
CallAdvances ==
    /\ pc = "crossing" => pc' \in {"match", "insert"}
    /\ pc = "match" => pc' \in {"match", "insert"}
    /\ pc = "insert" => pc' = "idle" /\ result' = "True"

\* C19: termination of matching: every add_order call terminates; each
\* iteration of the matching loop either returns or removes one resting
\* order from the opposite side, so the number of iterations is at most the
\* number of orders resting on the opposite side when the call started, and
\* the loop ends exactly when the incoming order's size is 0, the opposite
\* side is empty, or the next level examined does not satisfy the crossing
\* condition.
C19_MatchingTerminates ==
    /\ [](IterationBound /\ ExaminedLevelHasHead)
    /\ [][CallAdvances /\ LoopProgress /\ LoopEnds]_vars

\* C19: a BUY of size MaxSize met two resting SELLs of size 1: the loop made
\* two iterations, one per resting order, and ended on the empty opposite
\* side with the BUY's residual left to rest
C19_Witness ==
    /\ pc = "insert"
    /\ Len(orders) = 3
    /\ orders[3].side = "BUY" /\ cur_order = 3
    /\ size0[1] = 1 /\ size0[2] = 1 /\ size0[3] = MaxSize
    /\ Iterations = 2
    /\ Consumed = {1, 2}
    /\ OppositeOrders = {}
    /\ orders[3].size = MaxSize - 2

\* ------------------------------------------------------------------ C20
\* C20: identifier distinctness across books: the identifier built by
\* concatenating the decimal book_id with the decimal per-book order count
\* is distinct for any two orders submitted to any books of the process,
\* i.e. the mapping (book_id, order_count) -> order_id is injective.
C20_IdsDistinctAcrossBooks ==
    \A a, b \in 1..Len(orders) :
        (a # b /\ orders[a].order_id # 0 /\ orders[b].order_id # 0) =>
            orders[a].order_id # orders[b].order_id

====
